---------------------------- MODULE Spec2Model ----------------------------
(***************************************************************************)
(* Reverse-complement equivariant modules of mamba_ssm/modules/rc_wrapper.py *)
(*                                                                         *)
(* A tensor is modelled as one batch element: a sequence over the length   *)
(* axis (dim -2) of sequences over the channel axis (dim -1).  Every       *)
(* operation of the file acts on the last two axes only, so batch elements *)
(* are independent.  Tensor entries and learned parameters are integers;   *)
(* the one true division of the file (RCPSCollapse) yields a normalised    *)
(* rational <<numerator, denominator>>.                                    *)
(***************************************************************************)
EXTENDS Integers, Sequences, FiniteSets, TLC

VARIABLES module, supplied, call, ret, nlayers, c0

vars == <<module, supplied, call, ret, nlayers, c0>>

(***************************************************************************)
(* Bounds of the model.                                                    *)
(***************************************************************************)
MaxLen == 2
MaxLayers == 2

Lengths == 1..MaxLen
\* Tensor entries, parameter seeds and constructor arguments are drawn from:
Values == {0, 1}
Seeds == {1, 2}
EmbVocabSizes == {3, 4}
EmbDims == {3, 4}
EmbSeeds == {1}
ResProjSeeds == {2}
ProjSeeds == {1}
KeepDims == {2, 3, 4}
FreeWidths == {1, 2}
TrueDims == {1, 2}
HeadVocabSizes == {2, 3}
CollapseWidths == {2, 4}

(***************************************************************************)
(* Tensor primitives (torch.flip, torch.cat, slicing, nn.Linear,           *)
(* nn.Embedding).                                                          *)
(***************************************************************************)
\* Operator arguments are bound by value, so that an argument that is itself
\* a tensor expression is computed once and not once per entry read.
Apply1(F(_), x) == CHOOSE y \in {F(v) : v \in {x}} : TRUE
Apply2(F(_, _), a, b) == CHOOSE y \in {F(u, v) : u \in {a}, v \in {b}} : TRUE

RECURSIVE SumTo(_, _)
SumTo(f, n) == IF n = 0 THEN 0 ELSE f[n] + SumTo(f, n - 1)

\* sum of the entries of a vector
Sum(s) == Apply1(LAMBDA v : SumTo(v, Len(v)), s)

Width(x) == Len(x[1])

Reverse(s) == Apply1(LAMBDA v : [i \in 1..Len(v) |-> v[Len(v) + 1 - i]], s)

\* torch.flip(x, dims=[-2])
FlipLength(x) == Reverse(x)

\* torch.flip(x, dims=[-1])
FlipChannels(x) == Apply1(LAMBDA v : [l \in 1..Len(v) |-> Reverse(v[l])], x)

\* torch.flip(x, dims=[-2, -1])
FlipBoth(x) == FlipLength(FlipChannels(x))

\* torch.cat([a, b], dim=-1)
Cat(a, b) == Apply2(LAMBDA u, v : [l \in 1..Len(u) |-> u[l] \o v[l]], a, b)

\* x[..., :n // 2] and x[..., n // 2:]
FirstHalf(x) ==
    Apply1(LAMBDA v : [l \in 1..Len(v) |-> SubSeq(v[l], 1, Width(v) \div 2)], x)
SecondHalf(x) ==
    Apply1(LAMBDA v : [l \in 1..Len(v) |-> SubSeq(v[l], (Width(v) \div 2) + 1, Width(v))], x)

\* Deterministic parameter initialisation fixed by a seed.
Param(seed, i, j) == ((seed * 5 + i * 3 + j * 2 + i * j) % 7) - 3

\* nn.Linear(in_features, out_features, bias): weight is out x in.
NewLinear(seed, in_features, out_features, bias) ==
    [weight |-> [o \in 1..out_features |-> [k \in 1..in_features |-> Param(seed, o, k)]],
     bias |-> [o \in 1..out_features |-> IF bias THEN Param(seed + 1, o, o) ELSE 0]]

\* F.linear(x, weight): y[l][o] = sum_k weight[o][k] * x[l][k]
FLinear(x, weight) ==
    Apply2(LAMBDA v, w :
               [l \in 1..Len(v) |->
                   [o \in 1..Len(w) |-> Sum([k \in 1..Width(v) |-> w[o][k] * v[l][k]])]],
           x, weight)

\* nn.Linear.forward: F.linear(x, weight) + bias
ApplyLinear(lin, x) ==
    Apply2(LAMBDA y, bias : [l \in 1..Len(y) |-> [o \in 1..Len(bias) |-> y[l][o] + bias[o]]],
           FLinear(x, lin.weight), lin.bias)

\* a + b, elementwise on tensors of one shape
Add(a, b) ==
    Apply2(LAMBDA u, v : [l \in 1..Len(u) |-> [j \in 1..Width(u) |-> u[l][j] + v[l][j]]],
           a, b)

\* None for an absent tensor argument (a tensor has length >= 1).
None == << >>

\* nn.Embedding(vocab_size, d_model): weight is vocab_size x d_model.
NewEmbedding(seed, vocab_size, d_model) ==
    [v \in 1..vocab_size |-> [k \in 1..d_model |-> Param(seed + 2, v, k)]]

\* self.embedding(ids): row lookup (ids are 0-based).
ApplyEmbedding(weight, ids) ==
    Apply2(LAMBDA w, v : [l \in 1..Len(v) |-> w[v[l] + 1]], weight, ids)

\* All tensors of a shape over the value set.
Tensors(len, width) == [1..len -> [1..width -> Values]]

(***************************************************************************)
(* Python dict given as complement_map: insertion-ordered <<key, value>>   *)
(* items with distinct keys.                                               *)
(***************************************************************************)
Perms(n) == {f \in [1..n -> 0..(n - 1)] : \A i, j \in 1..n : f[i] = f[j] => i = j}

\* Dicts total over the vocabulary whose values form a permutation, under
\* every insertion order of the keys.
Dicts(n) ==
    {[i \in 1..n |-> <<order[i], m[order[i] + 1]>>] : order \in Perms(n), m \in Perms(n)}

\* complement_map[key] on the supplied dict.
DictGet(items, key) == items[CHOOSE i \in 1..Len(items) : items[i][1] = key][2]

(***************************************************************************)
(* class RCPSEmbedding                                                     *)
(***************************************************************************)
\* torch.tensor(list(OrderedDict(complement_map).values())): the values of the
\* dict in insertion order.
ComplementBuffer(items) == [i \in 1..Len(items) |-> items[i][2]]

\* The object RCPSEmbedding.__init__ builds (its assertion is in New_RCPSEmbedding).
RCPSEmbedding_init(vocab_size, d_model, items, seed) ==
    [kind |-> "RCPSEmbedding",
     vocab_size |-> vocab_size,
     d_model |-> d_model,
     complement_map |-> ComplementBuffer(items),
     embedding |-> NewEmbedding(seed, vocab_size, d_model),
     proj |-> NewLinear(seed, d_model, d_model \div 2, TRUE)]

\* RCPSEmbedding.rc: vmap_complement(torch.flip(x, dims=[-1]))
RCPSEmbedding_rc(self, x) ==
    Apply2(LAMBDA complement_map, flipped :
               [i \in 1..Len(flipped) |-> complement_map[flipped[i] + 1]],
           self.complement_map, Reverse(x))

\* RCPSEmbedding.forward
RCPSEmbedding_forward(self, input_ids) ==
    LET fwd_out == ApplyLinear(self.proj, ApplyEmbedding(self.embedding, input_ids))
        rc_out == FlipBoth(ApplyLinear(self.proj,
                      ApplyEmbedding(self.embedding, RCPSEmbedding_rc(self, input_ids))))
    IN  Cat(fwd_out, rc_out)

(***************************************************************************)
(* Wrapped submodules: deterministic, width-preserving maps on             *)
(* (length, channels) tensors supplied by the caller.                      *)
(***************************************************************************)
Submodules == {"Identity", "CumSum", "ChannelMix"}

Submodule(kind, x) ==
    Apply1(LAMBDA v :
               CASE kind = "Identity" -> v
                 [] kind = "CumSum" ->
                       [l \in 1..Len(v) |->
                           [j \in 1..Width(v) |-> Sum([i \in 1..l |-> v[i][j]])]]
                 [] kind = "ChannelMix" ->
                       [l \in 1..Len(v) |->
                           [j \in 1..Width(v) |-> j * v[l][j] + 2 * v[l][1]]],
           x)

(***************************************************************************)
(* class RCPSWrapper, class RCPSWrapperKeepDim                             *)
(***************************************************************************)
RCPSWrapper_init(submodule) ==
    [kind |-> "RCPSWrapper", submodule |-> submodule]

\* RCPSWrapper.rc: torch.flip(x, dims=[-2, -1])
RCPSWrapper_rc(x) == FlipBoth(x)

\* RCPSWrapper.forward without flipping the rc strand's output back.
RCPSWrapper_forward_Unflipped(self, x) ==
    LET fwd_out == Submodule(self.submodule, x)
        rc_out == Submodule(self.submodule, RCPSWrapper_rc(x))
    IN  Cat(fwd_out, rc_out)

\* RCPSWrapper.forward
RCPSWrapper_forward(self, x) ==
    LET fwd_out == Submodule(self.submodule, x)
        rc_out == Submodule(self.submodule, RCPSWrapper_rc(x))
    IN  Cat(fwd_out, RCPSWrapper_rc(rc_out))

\* The object RCPSWrapperKeepDim.__init__ builds (its assertion is in New_RCPSWrapperKeepDim).
RCPSWrapperKeepDim_init(submodule, dim, seed) ==
    [kind |-> "RCPSWrapperKeepDim", submodule |-> submodule, dim |-> dim,
     proj |-> NewLinear(seed, dim, dim \div 2, TRUE)]

\* RCPSWrapperKeepDim.forward without the projection of the two strands.
RCPSWrapperKeepDim_forward_Unprojected(self, x) ==
    LET fwd_out == Submodule(self.submodule, x)
        rc_out == Submodule(self.submodule, RCPSWrapper_rc(x))
    IN  Cat(fwd_out, RCPSWrapper_rc(rc_out))

\* RCPSWrapperKeepDim.forward
RCPSWrapperKeepDim_forward(self, x) ==
    LET fwd_out == ApplyLinear(self.proj, Submodule(self.submodule, x))
        rc_out == ApplyLinear(self.proj, Submodule(self.submodule, RCPSWrapper_rc(x)))
    IN  Cat(fwd_out, RCPSWrapper_rc(rc_out))

(***************************************************************************)
(* Normalisation module norm_f supplied by the caller: applied per         *)
(* position, with a per-channel weight and bias of a fixed width and a     *)
(* parameter dtype.                                                        *)
(***************************************************************************)
Dtypes == {"float32", "bfloat16"}

NewNorm(width, dtype) ==
    [width |-> width, dtype |-> dtype,
     weight |-> [j \in 1..width |-> j],
     bias |-> [j \in 1..width |-> Param(3, j, j)]]

\* Mean-centring normalisation, scaled by the width to stay integral:
\* y[j] = weight[j] * (width * v[j] - sum(v)) + bias[j]
NormF(norm, x) ==
    Apply1(LAMBDA v :
               [l \in 1..Len(v) |->
                   [j \in 1..Width(v) |->
                       norm.weight[j] * (Width(v) * v[l][j] - Sum(v[l])) + norm.bias[j]]],
           x)

\* One value cast to a dtype: float32 keeps it, bfloat16 rounds it (here to
\* an even number, towards zero).
CastValue(v, dtype) ==
    IF dtype = "float32" THEN v
    ELSE IF v >= 0 THEN v - (v % 2) ELSE 0 - ((0 - v) - ((0 - v) % 2))

\* x.to(dtype=...)
ToDtype(x, dtype) ==
    Apply1(LAMBDA v : [l \in 1..Len(v) |-> [j \in 1..Width(v) |-> CastValue(v[l][j], dtype)]],
           x)

(***************************************************************************)
(* class RCPSAddNormWrapper, class RCPSAddNormWrapperKeepDim               *)
(***************************************************************************)
RCPSAddNormWrapper_init(norm_f) ==
    [kind |-> "RCPSAddNormWrapper", norm_f |-> norm_f]

\* RCPSAddNormWrapper.rc
RCPSAddNormWrapper_rc(x) == FlipBoth(x)

\* RCPSAddNormWrapper.forward adding the residual to the rc strand unflipped.
RCPSAddNormWrapper_forward_ResidualUnflipped(self, x, residual) ==
    LET residual_fwd == IF residual # None THEN Add(x, residual) ELSE x
        x_fwd == NormF(self.norm_f, ToDtype(residual_fwd, self.norm_f.dtype))
        residual_rc == IF residual # None
                       THEN Add(RCPSAddNormWrapper_rc(x), residual)
                       ELSE RCPSAddNormWrapper_rc(x)
        x_rc == NormF(self.norm_f, ToDtype(residual_rc, self.norm_f.dtype))
    IN  [x |-> Cat(x_fwd, RCPSAddNormWrapper_rc(x_rc)),
         residual |-> Cat(residual_fwd, RCPSAddNormWrapper_rc(residual_rc))]

\* RCPSAddNormWrapper.forward: returns (x, residual)
RCPSAddNormWrapper_forward(self, x, residual) ==
    LET residual_fwd == IF residual # None THEN Add(x, residual) ELSE x
        x_fwd == NormF(self.norm_f, ToDtype(residual_fwd, self.norm_f.dtype))
        residual_rc == IF residual # None
                       THEN Add(RCPSAddNormWrapper_rc(x), RCPSAddNormWrapper_rc(residual))
                       ELSE RCPSAddNormWrapper_rc(x)
        x_rc == NormF(self.norm_f, ToDtype(residual_rc, self.norm_f.dtype))
    IN  [x |-> Cat(x_fwd, RCPSAddNormWrapper_rc(x_rc)),
         residual |-> Cat(residual_fwd, RCPSAddNormWrapper_rc(residual_rc))]

\* RCPSAddNormWrapperKeepDim.__init__ (no assertion on dim)
RCPSAddNormWrapperKeepDim_init(norm_f, dim, seed) ==
    [kind |-> "RCPSAddNormWrapperKeepDim", norm_f |-> norm_f, dim |-> dim,
     res_proj |-> NewLinear(seed, dim, dim \div 2, FALSE)]

\* RCPSAddNormWrapperKeepDim.forward: returns (x, residual)
RCPSAddNormWrapperKeepDim_forward(self, x, residual) ==
    LET residual_fwd == ApplyLinear(self.res_proj,
                            IF residual # None THEN Add(x, residual) ELSE x)
        x_fwd == NormF(self.norm_f, ToDtype(residual_fwd, self.norm_f.dtype))
        residual_rc == ApplyLinear(self.res_proj,
                           IF residual # None
                           THEN Add(RCPSAddNormWrapper_rc(x), RCPSAddNormWrapper_rc(residual))
                           ELSE RCPSAddNormWrapper_rc(x))
        x_rc == NormF(self.norm_f, ToDtype(residual_rc, self.norm_f.dtype))
    IN  [x |-> Cat(x_fwd, RCPSAddNormWrapper_rc(x_rc)),
         residual |-> Cat(residual_fwd, RCPSAddNormWrapper_rc(residual_rc))]

(***************************************************************************)
(* class RCPSLMHead                                                        *)
(***************************************************************************)
RCPSLMHead_init(true_dim, vocab_size, seed) ==
    [kind |-> "RCPSLMHead", true_dim |-> true_dim, vocab_size |-> vocab_size,
     lm_head |-> NewLinear(seed, true_dim, vocab_size, FALSE)]

\* RCPSLMHead.weight
RCPSLMHead_weight(self) == self.lm_head.weight

\* RCPSLMHead.forward without flipping the rc logits along the vocabulary.
RCPSLMHead_forward_LogitsUnflipped(self, x) ==
    LET fwd_logits == FLinear(FirstHalf(x), RCPSLMHead_weight(self))
        rc_logits == FLinear(FlipChannels(SecondHalf(x)), RCPSLMHead_weight(self))
    IN  Add(fwd_logits, rc_logits)

\* RCPSLMHead.forward
RCPSLMHead_forward(self, x) ==
    LET fwd_logits == FLinear(FirstHalf(x), RCPSLMHead_weight(self))
        rc_logits == FLinear(FlipChannels(SecondHalf(x)), RCPSLMHead_weight(self))
    IN  Add(fwd_logits, FlipChannels(rc_logits))

(***************************************************************************)
(* class RCPSCollapse                                                      *)
(***************************************************************************)
\* n / 2 as a normalised rational <<numerator, denominator>>
Half(n) == IF n % 2 = 0 THEN <<n \div 2, 1>> ELSE <<n, 2>>

\* An integer tensor entry as a rational.
Rat(n) == <<n, 1>>

RatTensor(x) ==
    Apply1(LAMBDA v : [l \in 1..Len(v) |-> [j \in 1..Width(v) |-> Rat(v[l][j])]], x)

\* RCPSCollapse.forward flipping the second half along the channels only.
RCPSCollapse_forward_ChannelFlipOnly(x) ==
    Apply1(LAMBDA sum : [l \in 1..Len(sum) |-> [j \in 1..Width(sum) |-> Half(sum[l][j])]],
           Add(FirstHalf(x), FlipChannels(SecondHalf(x))))

\* RCPSCollapse.forward flipping the second half along the length only.
RCPSCollapse_forward_LengthFlipOnly(x) ==
    Apply1(LAMBDA sum : [l \in 1..Len(sum) |-> [j \in 1..Width(sum) |-> Half(sum[l][j])]],
           Add(FirstHalf(x), FlipLength(SecondHalf(x))))

\* RCPSCollapse.forward
RCPSCollapse_forward(x) ==
    Apply1(LAMBDA sum : [l \in 1..Len(sum) |-> [j \in 1..Width(sum) |-> Half(sum[l][j])]],
           Add(FirstHalf(x), FlipBoth(SecondHalf(x))))

(***************************************************************************)
(* State: the module under construction or use, the arguments its          *)
(* constructor was given, the last call and what it returned or raised,    *)
(* and the number of layers the current hidden stream has passed through   *)
(* together with the stream's initial channel width.                       *)
(***************************************************************************)
NoModule == [kind |-> "None"]

Args(cls, dim, items) == [cls |-> cls, dim |-> dim, complement_map |-> items]

Call(op, ids, x, residual) == [op |-> op, ids |-> ids, x |-> x, residual |-> residual]

Returned(kind, value, residual) ==
    [kind |-> kind, exc |-> "", value |-> value, residual |-> residual]

Raised(exc) == [kind |-> "raise", exc |-> exc, value |-> None, residual |-> None]

Init ==
    /\ module = NoModule
    /\ supplied = Args("None", 0, None)
    /\ call = Call("None", None, None, None)
    /\ ret = Returned("None", None, None)
    /\ nlayers = 0
    /\ c0 = 0

\* The constructor returned the object, or raised and returned none.
Constructed(cls, dim, items, obj) ==
    /\ module' = obj
    /\ supplied' = Args(cls, dim, items)
    /\ call' = Call("__init__", None, None, None)
    /\ ret' = Returned("module", None, None)
    /\ nlayers' = 0
    /\ c0' = 0

ConstructorRaised(cls, dim, items, exc) ==
    /\ module' = NoModule
    /\ supplied' = Args(cls, dim, items)
    /\ call' = Call("__init__", None, None, None)
    /\ ret' = Raised(exc)
    /\ nlayers' = 0
    /\ c0' = 0

\* A behaviour constructs one module, calls it on one fresh input and then
\* stacks layers on the returned stream.  Construction reads nothing of the
\* earlier state and forward passes change no state of the module, so
\* this order of calls reaches every module and every result.
Fresh == call.op = "None"

JustConstructed == call.op = "__init__" /\ ret.kind = "module"

\* RCPSEmbedding(vocab_size, d_model, complement_map)
New_RCPSEmbedding ==
    /\ Fresh
    /\ \E vocab_size \in EmbVocabSizes, d_model \in EmbDims, seed \in EmbSeeds :
         \E items \in Dicts(vocab_size) :
            IF d_model % 2 = 0
            THEN Constructed("RCPSEmbedding", d_model, items,
                             RCPSEmbedding_init(vocab_size, d_model, items, seed))
            ELSE ConstructorRaised("RCPSEmbedding", d_model, items, "AssertionError")

\* RCPSWrapper(submodule)
New_RCPSWrapper ==
    /\ Fresh
    /\ \E submodule \in Submodules :
        Constructed("RCPSWrapper", 0, None, RCPSWrapper_init(submodule))

\* RCPSWrapperKeepDim(submodule, dim)
New_RCPSWrapperKeepDim ==
    /\ Fresh
    /\ \E submodule \in Submodules, dim \in KeepDims, seed \in ProjSeeds :
        IF dim % 2 = 0
        THEN Constructed("RCPSWrapperKeepDim", dim, None,
                         RCPSWrapperKeepDim_init(submodule, dim, seed))
        ELSE ConstructorRaised("RCPSWrapperKeepDim", dim, None, "AssertionError")

\* RCPSAddNormWrapper(norm_f)
New_RCPSAddNormWrapper ==
    /\ Fresh
    /\ \E width \in FreeWidths, dtype \in Dtypes :
        Constructed("RCPSAddNormWrapper", 0, None,
                    RCPSAddNormWrapper_init(NewNorm(width, dtype)))

\* RCPSAddNormWrapperKeepDim(norm_f, dim), norm_f of the projected width
New_RCPSAddNormWrapperKeepDim ==
    /\ Fresh
    /\ \E dim \in KeepDims, dtype \in Dtypes, seed \in ResProjSeeds :
        Constructed("RCPSAddNormWrapperKeepDim", dim, None,
                    RCPSAddNormWrapperKeepDim_init(NewNorm(dim \div 2, dtype), dim, seed))

\* RCPSLMHead(true_dim, vocab_size)
New_RCPSLMHead ==
    /\ Fresh
    /\ \E true_dim \in TrueDims, vocab_size \in HeadVocabSizes, seed \in Seeds :
        Constructed("RCPSLMHead", true_dim, None, RCPSLMHead_init(true_dim, vocab_size, seed))

\* RCPSCollapse()
New_RCPSCollapse ==
    /\ Fresh
    /\ Constructed("RCPSCollapse", 0, None, [kind |-> "RCPSCollapse"])

\* Id sequences over the vocabulary.
IdSeqs(vocab_size) == UNION {[1..len -> 0..(vocab_size - 1)] : len \in Lengths}

\* embedding.rc(ids)
Embedding_rc ==
    /\ module.kind = "RCPSEmbedding"
    /\ JustConstructed
    /\ \E ids \in IdSeqs(module.vocab_size) :
        /\ call' = Call("rc", ids, None, None)
        /\ ret' = Returned("ids", RCPSEmbedding_rc(module, ids), None)
    /\ UNCHANGED <<module, supplied, nlayers, c0>>

\* embedding(input_ids)
Embedding_forward ==
    /\ module.kind = "RCPSEmbedding"
    /\ JustConstructed
    /\ \E input_ids \in IdSeqs(module.vocab_size) :
        /\ call' = Call("forward", input_ids, None, None)
        /\ ret' = Returned("tensor", RCPSEmbedding_forward(module, input_ids), None)
    /\ UNCHANGED <<module, supplied, nlayers, c0>>

\* Residual arguments: absent, or one of two tensors of the shape of x.
ResidualTensor(k, len, width) ==
    [l \in 1..len |-> [j \in 1..width |-> ((k * l + j + k) % 3) - 1]]

Residuals(len, width) == {None} \cup {ResidualTensor(k, len, width) : k \in {1, 2}}

\* The forward pass of the module's class on (x, residual).
ModuleForward(self, x, residual) ==
    CASE self.kind = "RCPSWrapper" ->
            Returned("tensor", RCPSWrapper_forward(self, x), None)
      [] self.kind = "RCPSWrapperKeepDim" ->
            Returned("tensor", RCPSWrapperKeepDim_forward(self, x), None)
      [] self.kind = "RCPSAddNormWrapper" ->
            LET out == RCPSAddNormWrapper_forward(self, x, residual)
            IN  Returned("pair", out.x, out.residual)
      [] self.kind = "RCPSAddNormWrapperKeepDim" ->
            LET out == RCPSAddNormWrapperKeepDim_forward(self, x, residual)
            IN  Returned("pair", out.x, out.residual)
      [] self.kind = "RCPSLMHead" ->
            Returned("tensor", RCPSLMHead_forward(self, x), None)
      [] self.kind = "RCPSCollapse" ->
            Returned("rational", RCPSCollapse_forward(x), None)

\* A call of the module on a fresh input: the first layer of a stream.
FirstLayer(x, residual) ==
    /\ call' = Call("forward", None, x, residual)
    /\ ret' = ModuleForward(module, x, residual)
    /\ nlayers' = 1
    /\ c0' = Width(x)
    /\ UNCHANGED <<module, supplied>>

Wrapper_forward ==
    /\ module.kind = "RCPSWrapper"
    /\ JustConstructed
    /\ \E len \in Lengths, width \in FreeWidths :
        \E x \in Tensors(len, width) : FirstLayer(x, None)

WrapperKeepDim_forward ==
    /\ module.kind = "RCPSWrapperKeepDim"
    /\ JustConstructed
    /\ \E len \in Lengths :
        \E x \in Tensors(len, module.dim) : FirstLayer(x, None)

AddNorm_forward ==
    /\ module.kind = "RCPSAddNormWrapper"
    /\ JustConstructed
    /\ \E len \in Lengths :
        \E x \in Tensors(len, module.norm_f.width),
           residual \in Residuals(len, module.norm_f.width) : FirstLayer(x, residual)

AddNormKeepDim_forward ==
    /\ module.kind = "RCPSAddNormWrapperKeepDim"
    /\ JustConstructed
    /\ \E len \in Lengths :
        \E x \in Tensors(len, module.dim),
           residual \in Residuals(len, module.dim) : FirstLayer(x, residual)

LMHead_forward ==
    /\ module.kind = "RCPSLMHead"
    /\ JustConstructed
    /\ \E len \in Lengths :
        \E x \in Tensors(len, 2 * module.true_dim) : FirstLayer(x, None)

Collapse_forward ==
    /\ module.kind = "RCPSCollapse"
    /\ JustConstructed
    /\ \E len \in Lengths, width \in CollapseWidths :
        \E x \in Tensors(len, width) : FirstLayer(x, None)

StackableKinds ==
    {"RCPSWrapper", "RCPSWrapperKeepDim", "RCPSAddNormWrapper", "RCPSAddNormWrapperKeepDim"}

\* The next layer of a stack built with the same arguments: a norm_f of a
\* non-KeepDim layer is created for the width of the stream it receives.
NextLayer(self, width) ==
    IF self.kind = "RCPSAddNormWrapper"
    THEN RCPSAddNormWrapper_init(NewNorm(width, self.norm_f.dtype))
    ELSE self

\* The input width a layer's nn.Linear accepts (any width without one).
Accepts(self, width) ==
    self.kind \in {"RCPSWrapperKeepDim", "RCPSAddNormWrapperKeepDim"} => width = self.dim

\* The stream returned by a layer is fed to the next layer of the stack.
StackLayer ==
    /\ module.kind \in StackableKinds
    /\ ret.kind \in {"tensor", "pair"}
    /\ nlayers < MaxLayers
    /\ call' = Call("forward", None, ret.value, ret.residual)
    /\ IF Accepts(module, Width(ret.value))
       THEN /\ module' = NextLayer(module, Width(ret.value))
            /\ ret' = ModuleForward(module', ret.value, ret.residual)
            /\ nlayers' = nlayers + 1
       ELSE /\ module' = module
            /\ ret' = Raised("RuntimeError")
            /\ nlayers' = nlayers
    /\ UNCHANGED <<supplied, c0>>

Next ==
    \/ New_RCPSEmbedding
    \/ New_RCPSWrapper
    \/ New_RCPSWrapperKeepDim
    \/ New_RCPSAddNormWrapper
    \/ New_RCPSAddNormWrapperKeepDim
    \/ New_RCPSLMHead
    \/ New_RCPSCollapse
    \/ Embedding_rc
    \/ Embedding_forward
    \/ Wrapper_forward
    \/ WrapperKeepDim_forward
    \/ AddNorm_forward
    \/ AddNormKeepDim_forward
    \/ LMHead_forward
    \/ Collapse_forward
    \/ StackLayer

Spec == Init /\ [][Next]_vars

(***************************************************************************)
(* Properties.                                                             *)
(***************************************************************************)
\* The claims' reverse complement of a tensor: flip the length axis and the
\* whole channel axis.
rc(x) == FlipBoth(x)

rcOrNone(x) == IF x = None THEN None ELSE rc(x)

\* The supplied dict is an involution on its keys.
DictInvolutive(items) ==
    \A i \in 1..Len(items) : DictGet(items, DictGet(items, items[i][1])) = items[i][1]

EmbeddingCall(op) == module.kind = "RCPSEmbedding" /\ call.op = op

ForwardReturned(kinds) ==
    module.kind \in kinds /\ call.op = "forward" /\ ret.kind # "raise"

\* C1: embedding equivariance.  For an embedding built with an involutive
\* complement map and every id sequence S, forward(rc(S)) equals forward(S)
\* flipped along the length axis and the whole channel axis.
C1_EmbeddingEquivariance ==
    (EmbeddingCall("forward") /\ DictInvolutive(supplied.complement_map)) =>
        RCPSEmbedding_forward(module, RCPSEmbedding_rc(module, call.ids)) = rc(ret.value)

\* C2: involution of the reverse-complement primitive.  For an embedding
\* built with a supplied complement map that is an involution and every id
\* sequence S, rc(rc(S)) equals S.
C2_RcInvolution ==
    (EmbeddingCall("rc") /\ DictInvolutive(supplied.complement_map)) =>
        RCPSEmbedding_rc(module, ret.value) = call.ids

\* C3: wrapper equivariance.  For every wrapped submodule (the identity
\* among them) and every input x, RCPSWrapper.forward(rc(x)) equals
\* rc(RCPSWrapper.forward(x)), and likewise for RCPSWrapperKeepDim.
C3_WrapperEquivariance ==
    ForwardReturned({"RCPSWrapper", "RCPSWrapperKeepDim"}) =>
        ModuleForward(module, rc(call.x), None).value = rc(ret.value)

C3_Witness ==
    /\ ForwardReturned({"RCPSWrapperKeepDim"})
    /\ module.submodule = "Identity"
    /\ module.dim = 4
    /\ Len(call.x) = 2
    /\ rc(call.x) # call.x
    /\ rc(ret.value) # ret.value

\* C4: LM head symmetry.  For every hidden tensor x and head weight, the
\* logits of the flipped hidden state are the logits of x flipped along the
\* length and the vocabulary axis; a hidden state equal to its own flip
\* gives logits equal to their own flip.
C4_LMHeadSymmetry ==
    ForwardReturned({"RCPSLMHead"}) =>
        /\ RCPSLMHead_forward(module, rc(call.x)) = rc(ret.value)
        /\ (call.x = rc(call.x) => ret.value = rc(ret.value))

C4_Witness ==
    /\ ForwardReturned({"RCPSLMHead"})
    /\ module.true_dim = 2
    /\ module.vocab_size = 3
    /\ Len(call.x) = 2
    /\ rc(call.x) # call.x
    /\ rc(ret.value) # ret.value

\* C5 as stated: for x equal to its own flip, Collapse(x) equals the first
\* half of x and equals the second half of x.
C5_CollapseEqualsEitherHalf ==
    (ForwardReturned({"RCPSCollapse"}) /\ call.x = rc(call.x)) =>
        /\ ret.value = RatTensor(FirstHalf(call.x))
        /\ ret.value = RatTensor(SecondHalf(call.x))

\* C5 amended: for x equal to its own flip, Collapse(x) equals the first
\* half of x exactly, and equals the second half of x flipped along the
\* length and the channel axis.
C5_CollapseEqualsFirstHalf ==
    (ForwardReturned({"RCPSCollapse"}) /\ call.x = rc(call.x)) =>
        /\ ret.value = RatTensor(FirstHalf(call.x))
        /\ ret.value = RatTensor(FlipBoth(SecondHalf(call.x)))

C5_Witness ==
    /\ ForwardReturned({"RCPSCollapse"})
    /\ call.x = rc(call.x)
    /\ Width(call.x) = 4
    /\ Len(call.x) = 2
    /\ FirstHalf(call.x) # SecondHalf(call.x)
    /\ FirstHalf(call.x) # FlipLength(FirstHalf(call.x))

\* C6: constructing RCPSEmbedding, RCPSWrapperKeepDim or
\* RCPSAddNormWrapperKeepDim with an odd dimensionality raises an
\* AssertionError and yields no module.
C6_OddDimensionRejected ==
    (/\ call.op = "__init__"
     /\ supplied.cls \in {"RCPSEmbedding", "RCPSWrapperKeepDim", "RCPSAddNormWrapperKeepDim"}
     /\ supplied.dim % 2 = 1) =>
        /\ ret.kind = "raise"
        /\ ret.exc = "AssertionError"
        /\ module.kind = "None"

\* The sum a norm wrapper normalises: x + residual (x alone without a
\* residual), projected by res_proj in the KeepDim variant.
PreNormSum(self, x, residual) ==
    LET sum == IF residual = None THEN x ELSE Add(x, residual)
    IN  IF self.kind = "RCPSAddNormWrapperKeepDim" THEN ApplyLinear(self.res_proj, sum) ELSE sum

\* C7: norm wrapper equivariance of both outputs.  For every x and every
\* residual (or none), forward(rc(x), rc(residual)) returns (rc(out), rc(res))
\* where (out, res) = forward(x, residual), and res is the concatenation of
\* the sums before normalisation; for RCPSAddNormWrapper and its KeepDim
\* variant.
C7_AddNormEquivariance ==
    ForwardReturned({"RCPSAddNormWrapper", "RCPSAddNormWrapperKeepDim"}) =>
        /\ ModuleForward(module, rc(call.x), rcOrNone(call.residual))
               = Returned("pair", rc(ret.value), rc(ret.residual))
        /\ ret.residual =
               Cat(PreNormSum(module, call.x, call.residual),
                   rc(PreNormSum(module, rc(call.x), rcOrNone(call.residual))))

C7_Witness ==
    /\ ForwardReturned({"RCPSAddNormWrapper"})
    /\ module.norm_f.dtype = "bfloat16"
    /\ module.norm_f.width = 2
    /\ call.residual # None
    /\ Len(call.x) = 2
    /\ rc(call.x) # call.x
    /\ rc(call.residual) # call.residual
    /\ rc(ret.value) # ret.value
    /\ ret.value # ret.residual

\* C8: the lookup table built by RCPSEmbedding.__init__ maps every id t to
\* the complement the supplied mapping assigns to t, whatever the insertion
\* order of its keys, so that rc(S)[i] = complement_map[S[len(S)-1-i]].
C8_LookupAgreesWithMapping ==
    /\ module.kind = "RCPSEmbedding" =>
           \A t \in 0..(module.vocab_size - 1) :
               module.complement_map[t + 1] = DictGet(supplied.complement_map, t)
    /\ EmbeddingCall("rc") =>
           \A i \in 1..Len(call.ids) :
               ret.value[i] = DictGet(supplied.complement_map, call.ids[Len(call.ids) + 1 - i])

RECURSIVE Pow2(_)
Pow2(n) == IF n = 0 THEN 1 ELSE 2 * Pow2(n - 1)

HasWidth(r, width) ==
    Width(r.value) = width /\ (r.kind = "pair" => Width(r.residual) = width)

\* C9: width preservation.  After any number of stacked KeepDim layers built
\* with an even dim = c on a stream of width c, the output and the
\* propagated residual have width c; after n non-KeepDim layers they have
\* width c * 2^n.
C9_WidthAcrossLayers ==
    /\ (/\ ForwardReturned({"RCPSWrapperKeepDim", "RCPSAddNormWrapperKeepDim"})
        /\ module.dim % 2 = 0) =>
            /\ c0 = module.dim
            /\ Width(call.x) = c0
            /\ HasWidth(ret, c0)
    /\ ForwardReturned({"RCPSWrapper", "RCPSAddNormWrapper"}) =>
            /\ Width(call.x) = c0 * Pow2(nlayers - 1)
            /\ HasWidth(ret, c0 * Pow2(nlayers))

C9_Witness ==
    /\ ForwardReturned({"RCPSAddNormWrapperKeepDim"})
    /\ module.dim = 4
    /\ nlayers = 2
    /\ Len(call.x) = 2
    /\ call.residual # None

\* C10: collapse is invariant under the flip.  For every x of even width,
\* Collapse(rc(x)) equals Collapse(x) position by position, unflipped.
C10_CollapseInvariant ==
    ForwardReturned({"RCPSCollapse"}) =>
        RCPSCollapse_forward(rc(call.x)) = ret.value

C10_Witness ==
    /\ ForwardReturned({"RCPSCollapse"})
    /\ Width(call.x) = 4
    /\ Len(call.x) = 2
    /\ rc(call.x) # call.x
    /\ ret.value # RatTensor(FirstHalf(call.x))
    /\ ret.value # FlipBoth(ret.value)

=============================================================================
